---- MODULE Spec2Model ----
(***************************************************************************)
(* Farmart backend: registration, login, orders and wishlist handlers of   *)
(* app/auth/views.py, app/orders/routes.py and app/wishlist/routes.py over *)
(* the tables of app/models.py.                                            *)
(*                                                                         *)
(* A JSON body is a function from its keys to values, so that `k in data`  *)
(* is k \in DOMAIN data.  A handler is an operator from the committed      *)
(* tables and the request to a response and the tables it commits; the     *)
(* action of the handler applies it.  Handlers that only read are          *)
(* operators alone.  Money is counted in hundredths (Numeric(10, 2)).      *)
(***************************************************************************)
EXTENDS Integers, Sequences, FiniteSets, TLC

VARIABLES
    users,          \* table users: rows [id, email, password_hash, role]
    farmers,        \* table farmers: rows [id, user_id, farm_name, location, phone_number]
    buyers,         \* table buyers: rows [id, user_id]
    orders,         \* table orders: rows [id, buyer_id, items, total_amount]
    wishlists,      \* table wishlists: rows [id, user_id, animal_id]
    wishlist_seq,   \* last value of the wishlists.id sequence
    created_by,     \* history: <<table, row id, identity>> for each stored row and the caller that created it
    sess            \* per worker: the request it is in the middle of

vars == <<users, farmers, buyers, orders, wishlists, wishlist_seq, created_by, sess>>

(***************************************************************************)
(* Bounds                                                                  *)
(***************************************************************************)
MaxOrders == 2
MaxWishlistRows == 2

(***************************************************************************)
(* Python values                                                           *)
(***************************************************************************)
None == "None"

\* data.get(k)
Get(data, k) == IF k \in DOMAIN data THEN data[k] ELSE None

\* truth value of an optional string, as all([...]) reads it
Truthy(v) == v \notin {None, ""}

\* the body with the keys whose value is not None
Body(full) == [k \in {k \in DOMAIN full : full[k] # None} |-> full[k]]

\* the body with the keys of `keys` alone
Only(full, keys) == [k \in keys |-> full[k]]

\* str.lower() on the role strings that are sent
Lower(s) ==
    CASE s = "Farmer" -> "farmer"
      [] s = "BUYER" -> "buyer"
      [] OTHER -> s

\* uuid.uuid4 values in the order they are drawn, as str() prints them
UuidStr ==
    << "6f1c0d6e-0000-4000-8000-000000000001",
       "6f1c0d6e-0000-4000-8000-000000000002",
       "6f1c0d6e-0000-4000-8000-000000000003",
       "6f1c0d6e-0000-4000-8000-000000000004",
       "6f1c0d6e-0000-4000-8000-000000000005" >>

UserIds == DOMAIN UuidStr

\* a conversion that raises nothing: a string that is no UUID becomes an id no row has
UUIDUnchecked(s) ==
    IF \E i \in UserIds : UuidStr[i] = s THEN CHOOSE i \in UserIds : UuidStr[i] = s ELSE 99

\* uuid.UUID(s): the identity, or 0 for ValueError
UUID(s) == IF \E i \in UserIds : UuidStr[i] = s THEN CHOOSE i \in UserIds : UuidStr[i] = s ELSE 0

\* generate_password_hash / check_password_hash
generate_password_hash(password) == <<"pbkdf2:sha256", password>>
check_password_hash(pwhash, password) == pwhash = generate_password_hash(password)

set_password(user, password) == [user EXCEPT !.password_hash = generate_password_hash(password)]
check_password(user, password) == check_password_hash(user.password_hash, password)

(***************************************************************************)
(* Seed rows of manage_db.py                                               *)
(***************************************************************************)
SeedUsers ==
    { set_password([id |-> 1, email |-> "test@farmart.com", password_hash |-> <<>>, role |-> "buyer"],
                   "testpass123"),
      set_password([id |-> 2, email |-> "farmer@farmart.com", password_hash |-> <<>>, role |-> "farmer"],
                   "farmerpass123") }

SeedBuyers == { [id |-> 1, user_id |-> 1] }

SeedFarmers ==
    { [id |-> 1, user_id |-> 2, farm_name |-> "Kamau's Farm", location |-> "Nakuru",
       phone_number |-> "+254711111111"] }

\* ids of the rows of table animals; no handler writes the table
animals == {1, 2, 3}

(***************************************************************************)
(* Requests                                                                *)
(***************************************************************************)
Emails == {"test@farmart.com", "b@x.com", "c@x.com"}
Passwords == {"testpass123", "pw123456"}
Phones == {"+254711111111", "+254722222222"}

RegisterBodies ==
    { Body([email |-> e, password |-> p, role |-> r,
            farm_name |-> None, location |-> None, phone_number |-> None]) :
        e \in Emails \cup {None}, p \in {"pw123456", None},
        r \in {"buyer", "BUYER", "farmer", "admin", None} }
    \cup
    { Body([email |-> e, password |-> "pw123456", role |-> "Farmer",
            farm_name |-> f, location |-> l, phone_number |-> n]) :
        e \in Emails, f \in {"Green Acres", None}, l \in {"Nakuru", None},
        n \in Phones \cup {"", None} }

LoginBodies ==
    [email : Emails \cup {"farmer@farmart.com", "nobody@x.com"},
     password : Passwords \cup {"farmerpass123"}]

\* str() of an integer id, and the integer the database reads from it
Str(n) == <<"str", n>>
IntOf(s) == s[2]

\* total_amount as sent, in thousandths
Amounts == {185000000, 28000005}

OrderBodies ==
    { Only([items |-> <<"Cow">>, total_amount |-> a, buyer_id |-> b], keys) :
        a \in Amounts, b \in {1, 2}, keys \in SUBSET {"items", "total_amount", "buyer_id"} }

WishlistBodies ==
    { Only([animal_id |-> a, user_id |-> u], keys) :
        a \in {1, 2, 99}, u \in {UuidStr[1], UuidStr[3]}, keys \in SUBSET {"animal_id", "user_id"} }

OrderIdParams == {Str(i) : i \in 1 .. MaxOrders + 1}
WishlistIdParams == {Str(i) : i \in 1 .. MaxWishlistRows + 1}

Workers == {"w1", "w2"}
Idle == [pc |-> "idle"]

(***************************************************************************)
(* Responses                                                               *)
(***************************************************************************)
\* the handler has not returned
Continue == [status |-> 0]

Error(code, text) == [status |-> code, body |-> [error |-> text]]
Message(code, text) == [status |-> code, body |-> [message |-> text]]

(***************************************************************************)
(* Registration: POST /register                                            *)
(***************************************************************************)
\* User.query.filter_by(email=email).first()
UserByEmail(email) == {u \in users : u.email = email}

\* Farmer.query.filter_by(phone_number=...).first()
FarmerByPhone(phone) == {f \in farmers : f.phone_number = phone}

\* the validation without line 54's email query
RegisterRejectsNoEmailQuery(data) ==
    IF ~ ({"email", "password", "role"} \subseteq DOMAIN data)
    THEN Error(400, "Missing email, password, or role")
    ELSE IF Lower(data.role) \notin {"farmer", "buyer"}
    THEN Error(400, "Invalid role. Must be 'farmer' or 'buyer'")
    ELSE Continue

\* lines 36-55: the response that ends the request before anything is written, or Continue
RegisterRejects(data) ==
    IF ~ ({"email", "password", "role"} \subseteq DOMAIN data)
    THEN Error(400, "Missing email, password, or role")
    ELSE IF Lower(data.role) \notin {"farmer", "buyer"}
    THEN Error(400, "Invalid role. Must be 'farmer' or 'buyer'")
    ELSE IF UserByEmail(data.email) # {}
    THEN Error(409, "Email already registered")
    ELSE Continue

\* identities of rows written and not yet committed or rolled back
PendingIds == {sess[w].new_user.id : w \in {v \in Workers : sess[v].pc \in {"profile", "commit"}}}

\* default=uuid.uuid4: an identity no row has
uuid4 == CHOOSE i \in UserIds : /\ i \notin {u.id : u \in users} \cup PendingIds
                                /\ \A j \in UserIds : j < i => j \in {u.id : u \in users} \cup PendingIds

\* autoincrement primary key of a table whose rows are never deleted
NextId(table) == Cardinality(table) + 1

\* lines 58-65
NewUser(data) ==
    set_password([id |-> uuid4, email |-> data.email, password_hash |-> <<>>,
                  role |-> Lower(data.role)], data.password)

\* the farmer checks without line 84's phone query
FarmerRejectsNoPhoneQuery(data) ==
    IF ~ (Truthy(Get(data, "farm_name")) /\ Truthy(Get(data, "location"))
          /\ Truthy(Get(data, "phone_number")))
    THEN Error(400, "Farmers require farm_name, location, and phone_number")
    ELSE Continue

\* lines 73-86: the response that ends a farmer's request after the flush, or Continue
FarmerRejects(data) ==
    IF ~ (Truthy(Get(data, "farm_name")) /\ Truthy(Get(data, "location"))
          /\ Truthy(Get(data, "phone_number")))
    THEN Error(400, "Farmers require farm_name, location, and phone_number")
    ELSE IF FarmerByPhone(data.phone_number) # {}
    THEN Error(409, "Phone number already registered")
    ELSE Continue

\* lines 88-93
NewFarmer(user, data) ==
    [id |-> NextId(farmers), user_id |-> user.id, farm_name |-> data.farm_name,
     location |-> data.location, phone_number |-> data.phone_number]

\* lines 98-102
NewBuyer(user) == [id |-> NextId(buyers), user_id |-> user.id]

\* unique=True of users.email and farmers.phone_number, as the database enforces them on INSERT
EmailUnique(user) == UserByEmail(user.email) = {}
PhoneUnique(data) == FarmerByPhone(data.phone_number) = {}

\* a commit without line 113's rollback: the users row stays when the profile is refused
CommitWithoutRollback(user, data) ==
    IF ~ EmailUnique(user)
    THEN [response |-> Error(500, "IntegrityError"),
          users |-> users, farmers |-> farmers, buyers |-> buyers]
    ELSE [response |-> IF user.role = "farmer" /\ ~ PhoneUnique(data)
                       THEN Error(500, "IntegrityError")
                       ELSE [status |-> 201,
                             body |-> [message |-> "registered", role |-> user.role,
                                       user_id |-> UuidStr[user.id]]],
          users |-> users \cup {user},
          farmers |-> IF user.role = "farmer" /\ PhoneUnique(data)
                      THEN farmers \cup {NewFarmer(user, data)} ELSE farmers,
          buyers |-> IF user.role = "buyer" THEN buyers \cup {NewBuyer(user)} ELSE buyers]

\* lines 94-114: the rows the session holds are inserted and committed together, or none is
Commit(user, data) ==
    IF ~ EmailUnique(user) \/ (user.role = "farmer" /\ ~ PhoneUnique(data))
    THEN [response |-> Error(500, "IntegrityError"),
          users |-> users, farmers |-> farmers, buyers |-> buyers]
    ELSE [response |-> [status |-> 201,
                        body |-> [message |-> "registered", role |-> user.role,
                                  user_id |-> UuidStr[user.id]]],
          users |-> users \cup {user},
          farmers |-> IF user.role = "farmer" THEN farmers \cup {NewFarmer(user, data)} ELSE farmers,
          buyers |-> IF user.role = "buyer" THEN buyers \cup {NewBuyer(user)} ELSE buyers]

\* a response that commits nothing (the session is rolled back or was never written to)
Unchanged(response) ==
    [response |-> response, users |-> users, farmers |-> farmers, buyers |-> buyers]

\* the handler without line 78's rollback: the flushed users row is committed with the 400
register_without_rollback(data) ==
    IF RegisterRejects(data) # Continue THEN Unchanged(RegisterRejects(data))
    ELSE IF Lower(data.role) = "farmer" /\ FarmerRejects(data) # Continue
    THEN IF FarmerRejects(data).status = 400
         THEN [response |-> FarmerRejects(data), users |-> users \cup {NewUser(data)},
               farmers |-> farmers, buyers |-> buyers]
         ELSE Unchanged(FarmerRejects(data))
    ELSE Commit(NewUser(data), data)

\* lines 32-114, one request at a time
register(data) ==
    IF RegisterRejects(data) # Continue THEN Unchanged(RegisterRejects(data))
    ELSE IF Lower(data.role) = "farmer" /\ FarmerRejects(data) # Continue
    THEN Unchanged(FarmerRejects(data))
    ELSE Commit(NewUser(data), data)

Register ==
    \E data \in RegisterBodies :
        LET r == register(data) IN
        /\ users' = r.users
        /\ farmers' = r.farmers
        /\ buyers' = r.buyers
        /\ UNCHANGED <<orders, wishlists, wishlist_seq, created_by, sess>>

(***************************************************************************)
(* Login: POST /login                                                      *)
(***************************************************************************)
\* .first() of a query without ORDER BY: the row stored first
First(rows) == CHOOSE r \in rows : \A q \in rows : r.id <= q.id

\* create_access_token(identity=..., additional_claims={"role": ...})
create_access_token(identity, role) == [sub |-> identity, role |-> role]

\* a login that tells an unknown email from a wrong password
login_user_not_found(data) ==
    LET found == UserByEmail(data.email) IN
    IF found = {} THEN Error(404, "User not found")
    ELSE IF check_password(First(found), data.password)
    THEN LET user == First(found) IN
         [status |-> 200,
          body |-> [message |-> "Login successful",
                    access_token |-> create_access_token(UuidStr[user.id], user.role),
                    user |-> [id |-> UuidStr[user.id], email |-> user.email, role |-> user.role]]]
    ELSE Error(401, "Invalid credentials")

\* lines 119-148
login(data) ==
    LET found == UserByEmail(data.email) IN
    IF found # {} /\ check_password(First(found), data.password)
    THEN LET user == First(found) IN
         [status |-> 200,
          body |-> [message |-> "Login successful",
                    access_token |-> create_access_token(UuidStr[user.id], user.role),
                    user |-> [id |-> UuidStr[user.id], email |-> user.email, role |-> user.role]]]
    ELSE Error(401, "Invalid credentials")

\* the tokens a client can hold: those login issues, and one whose subject is no UUID
MalformedToken == [sub |-> "not-a-uuid", role |-> "buyer"]
Tokens == {login(d).body.access_token : d \in {b \in LoginBodies : login(b).status = 200}}
          \cup {MalformedToken}

\* get_jwt_identity()
get_jwt_identity(token) == token.sub

\* views.py lines 152-179
get_current_user(token) ==
    LET user_id_uuid == UUID(get_jwt_identity(token))
        found == {u \in users : u.id = user_id_uuid}
    IN IF user_id_uuid = 0 THEN Error(400, "Invalid user ID format")
       ELSE IF found = {} THEN Error(404, "User not found")
       ELSE [status |-> 200,
             body |-> [id |-> UuidStr[First(found).id], email |-> First(found).email,
                       role |-> First(found).role]]

(***************************************************************************)
(* Orders                                                                  *)
(***************************************************************************)
\* Buyer.query.filter_by(user_id=current_user_id)
BuyerByUser(user_id) == {b \in buyers : b.user_id = user_id}

\* the query without its buyer_id filter
OrdersOfAnyBuyer(buyer_id) == orders

\* Order.query.filter_by(buyer_id=...)
OrdersByBuyer(buyer_id) == {o \in orders : o.buyer_id = buyer_id}

\* Numeric(10, 2): the column keeps two decimals of the number sent
Numeric(thousandths) == (thousandths + 5) \div 10

\* Order.to_dict
OrderDict(o) ==
    [id |-> Str(o.id), buyer_id |-> Str(o.buyer_id), items |-> o.items,
     total_amount |-> o.total_amount]

\* routes.py lines 11-33
get_my_orders(token) ==
    LET current_user_id == UUID(get_jwt_identity(token)) IN
    IF current_user_id = 0 THEN Error(400, "Invalid user ID format")
    ELSE IF BuyerByUser(current_user_id) = {}
    THEN Message(404, "No buyer profile found for this user")
    ELSE [status |-> 200,
          body |-> {OrderDict(o) : o \in OrdersByBuyer(First(BuyerByUser(current_user_id)).id)}]

\* the owner read from the body when the body names one
order_buyer_id_from_body(buyer, data) ==
    IF "buyer_id" \in DOMAIN data THEN data.buyer_id ELSE buyer.id

\* routes.py line 64: buyer_id=buyer.id, whatever the body says
order_buyer_id(buyer, data) == buyer.id

\* routes.py lines 38-77: the response and the row added, if any
create_order(token, data) ==
    LET current_user_id == UUID(get_jwt_identity(token)) IN
    IF current_user_id = 0
    THEN [response |-> Error(400, "Invalid user ID format"), added |-> {}]
    ELSE IF BuyerByUser(current_user_id) = {}
    THEN [response |-> Message(404, "No buyer profile found for this user"), added |-> {}]
    ELSE IF DOMAIN data = {} \/ "items" \notin DOMAIN data \/ "total_amount" \notin DOMAIN data
    THEN [response |-> Message(400, "Missing required fields: items, total_amount"), added |-> {}]
    ELSE LET order == [id |-> NextId(orders),
                       buyer_id |-> order_buyer_id(First(BuyerByUser(current_user_id)), data),
                       items |-> data.items,
                       total_amount |-> Numeric(data.total_amount)]
         IN [response |-> [status |-> 201,
                           body |-> [message |-> "Order created successfully",
                                     order |-> OrderDict(order)]],
             added |-> {order}]

\* routes.py lines 82-107
get_order(token, order_id) ==
    LET current_user_id == UUID(get_jwt_identity(token)) IN
    IF current_user_id = 0 THEN Error(400, "Invalid user ID format")
    ELSE IF BuyerByUser(current_user_id) = {}
    THEN Message(404, "No buyer profile found for this user")
    ELSE LET found == {o \in OrdersByBuyer(First(BuyerByUser(current_user_id)).id) :
                          o.id = IntOf(order_id)}
         IN IF found = {} THEN Message(404, "Order not found or access denied")
            ELSE [status |-> 200, body |-> OrderDict(First(found))]

\* float(o.total_amount): the stored two-decimal number, in thousandths
Float(hundredths) == hundredths * 10

\* sum(float(o.total_amount) for o in orders), in thousandths
RECURSIVE Sum(_)
Sum(rows) ==
    IF rows = {} THEN 0
    ELSE LET r == CHOOSE r \in rows : TRUE IN Float(r.total_amount) + Sum(rows \ {r})

\* round(total_spent, 2): thousandths to hundredths
Round2(thousandths) == (thousandths + 5) \div 10

\* the handler answering 404 without a Buyer profile, as get_my_orders does
get_order_stats_profile_required(token) ==
    LET current_user_id == UUID(get_jwt_identity(token)) IN
    IF current_user_id = 0 THEN Error(400, "Invalid user ID format")
    ELSE IF BuyerByUser(current_user_id) = {}
    THEN Message(404, "No buyer profile found for this user")
    ELSE LET mine == OrdersByBuyer(First(BuyerByUser(current_user_id)).id) IN
         [status |-> 200,
          body |-> [total_orders |-> Cardinality(mine), total_spent |-> Round2(Sum(mine))]]

\* routes.py lines 112-139
get_order_stats(token) ==
    LET current_user_id == UUID(get_jwt_identity(token)) IN
    IF current_user_id = 0 THEN Error(400, "Invalid user ID format")
    ELSE IF BuyerByUser(current_user_id) = {}
    THEN [status |-> 200, body |-> [total_orders |-> 0, total_spent |-> 0]]
    ELSE LET mine == OrdersByBuyer(First(BuyerByUser(current_user_id)).id) IN
         [status |-> 200,
          body |-> [total_orders |-> Cardinality(mine), total_spent |-> Round2(Sum(mine))]]

CreateOrder ==
    \E token \in Tokens, data \in OrderBodies :
        LET r == create_order(token, data) IN
        /\ Cardinality(orders) < MaxOrders
        /\ orders' = orders \cup r.added
        /\ created_by' = created_by \cup
               {<<"orders", o.id, UUID(get_jwt_identity(token))>> : o \in r.added}
        /\ UNCHANGED <<users, farmers, buyers, wishlists, wishlist_seq, sess>>

(***************************************************************************)
(* Wishlist                                                                *)
(***************************************************************************)
\* the query without its user_id filter
WishlistOfAnyUser(user_id) == wishlists

\* Wishlist.query.filter_by(user_id=current_user_id)
WishlistByUser(user_id) == {x \in wishlists : x.user_id = user_id}

\* Wishlist.to_dict
WishlistDict(x) == [id |-> Str(x.id), user_id |-> UuidStr[x.user_id], animal_id |-> Str(x.animal_id)]

\* routes.py lines 13-38
get_my_wishlist(token) ==
    LET current_user_id == UUID(get_jwt_identity(token)) IN
    IF current_user_id = 0 THEN Error(400, "Invalid user ID format")
    ELSE [status |-> 200, body |-> {WishlistDict(x) : x \in WishlistByUser(current_user_id)}]

\* ForeignKey("users.id") and ForeignKey("animals.id") of table wishlists
WishlistForeignKeys(x) == x.user_id \in {u.id : u \in users} /\ x.animal_id \in animals

\* the duplicate query finding nothing
WishlistByUserAnimalNone(user_id, animal_id) == {}

\* routes.py lines 68-70: Wishlist.query.filter_by(user_id=..., animal_id=...)
WishlistByUserAnimal(user_id, animal_id) ==
    {x \in WishlistByUser(user_id) : x.animal_id = animal_id}

\* routes.py lines 76-79: user_id=current_user_id, whatever the body says
NewWishlist(current_user_id, data) ==
    [id |-> wishlist_seq + 1, user_id |-> current_user_id, animal_id |-> data.animal_id]

\* routes.py lines 43-94: the response, the row added if any, and the sequence
add_to_wishlist(token, data) ==
    LET current_user_id == UUID(get_jwt_identity(token)) IN
    IF current_user_id = 0
    THEN [response |-> Error(400, "Invalid user ID format"), added |-> {}, seq |-> wishlist_seq]
    ELSE IF DOMAIN data = {} \/ "animal_id" \notin DOMAIN data
    THEN [response |-> Message(400, "Missing required field: animal_id"),
          added |-> {}, seq |-> wishlist_seq]
    ELSE IF WishlistByUserAnimal(current_user_id, data.animal_id) # {}
    THEN [response |-> Message(200, "Item already in wishlist"),
          added |-> {}, seq |-> wishlist_seq]
    ELSE LET wishlist_item == NewWishlist(current_user_id, data)
         IN IF ~ WishlistForeignKeys(wishlist_item)
            THEN [response |-> Error(500, "Backend Crash"), added |-> {},
                  seq |-> wishlist_seq + 1]
            ELSE [response |-> [status |-> 201,
                                body |-> [message |-> "Added to wishlist",
                                          item |-> WishlistDict(wishlist_item)]],
                  added |-> {wishlist_item}, seq |-> wishlist_seq + 1]

\* routes.py lines 99-121: the response and the rows deleted
remove_from_wishlist(token, item_id) ==
    LET current_user_id == UUID(get_jwt_identity(token)) IN
    IF current_user_id = 0
    THEN [response |-> Error(400, "Invalid user ID format"), deleted |-> {}]
    ELSE LET found == {x \in WishlistByUser(current_user_id) : x.id = IntOf(item_id)} IN
         IF found = {}
         THEN [response |-> Message(404, "Wishlist item not found or access denied"),
               deleted |-> {}]
         ELSE [response |-> Message(200, "Removed from wishlist"), deleted |-> {First(found)}]

\* routes.py lines 126-142
check_in_wishlist(token, animal_id) ==
    LET current_user_id == UUID(get_jwt_identity(token)) IN
    IF current_user_id = 0 THEN Error(400, "Invalid user ID format")
    ELSE [status |-> 200,
          body |-> [in_wishlist |->
                       WishlistByUserAnimal(current_user_id, IntOf(animal_id)) # {}]]

\* routes.py lines 147-161
get_wishlist_count(token) ==
    LET current_user_id == UUID(get_jwt_identity(token)) IN
    IF current_user_id = 0 THEN Error(400, "Invalid user ID format")
    ELSE [status |-> 200, body |-> [count |-> Cardinality(WishlistByUser(current_user_id))]]

AddToWishlist ==
    \E token \in Tokens, data \in WishlistBodies :
        LET r == add_to_wishlist(token, data) IN
        /\ wishlist_seq < MaxWishlistRows
        /\ wishlists' = wishlists \cup r.added
        /\ wishlist_seq' = r.seq
        /\ created_by' = created_by \cup
               {<<"wishlists", x.id, UUID(get_jwt_identity(token))>> : x \in r.added}
        /\ UNCHANGED <<users, farmers, buyers, orders, sess>>

RemoveFromWishlist ==
    \E token \in Tokens, item_id \in WishlistIdParams :
        LET r == remove_from_wishlist(token, item_id) IN
        /\ wishlists' = wishlists \ r.deleted
        /\ created_by' = {c \in created_by :
                             ~ (c[1] = "wishlists" /\ c[2] \in {x.id : x \in r.deleted})}
        /\ UNCHANGED <<users, farmers, buyers, orders, wishlist_seq, sess>>

(***************************************************************************)
(* Registration by concurrent workers: each statement the handler sends to *)
(* the database is a step, and the steps of two requests interleave.       *)
(***************************************************************************)
\* users rows another worker has inserted and neither committed nor rolled back
PendingUsers(w) ==
    {sess[v].new_user : v \in {x \in Workers \ {w} : sess[x].pc \in {"profile", "commit"}}}

\* lines 33-55: validation and the email query
RegisterReceive(w) ==
    /\ sess[w].pc = "idle"
    /\ \E data \in RegisterBodies :
        sess' = [sess EXCEPT ![w] = IF RegisterRejects(data) # Continue THEN Idle
                                    ELSE [pc |-> "flush", data |-> data]]
    /\ UNCHANGED <<users, farmers, buyers, orders, wishlists, wishlist_seq, created_by>>

\* lines 58-68: INSERT INTO users; it waits for a pending row with the same email, and
\* raises IntegrityError out of the handler when a committed row has it
RegisterFlush(w) ==
    /\ sess[w].pc = "flush"
    /\ \A u \in PendingUsers(w) : u.email # sess[w].data.email
    /\ sess' = [sess EXCEPT ![w] =
                   IF ~ EmailUnique(NewUser(sess[w].data)) THEN Idle
                   ELSE [pc |-> "profile", data |-> sess[w].data,
                         new_user |-> NewUser(sess[w].data)]]
    /\ UNCHANGED <<users, farmers, buyers, orders, wishlists, wishlist_seq, created_by>>

\* lines 71-103: the farmer checks (rollback on failure) and the profile object
RegisterProfile(w) ==
    /\ sess[w].pc = "profile"
    /\ sess' = [sess EXCEPT ![w] =
                   IF sess[w].new_user.role = "farmer" /\ FarmerRejects(sess[w].data) # Continue
                   THEN Idle
                   ELSE [sess[w] EXCEPT !.pc = "commit"]]
    /\ UNCHANGED <<users, farmers, buyers, orders, wishlists, wishlist_seq, created_by>>

\* lines 106-114: commit, or rollback when the database refuses a row
RegisterCommit(w) ==
    /\ sess[w].pc = "commit"
    /\ LET r == Commit(sess[w].new_user, sess[w].data) IN
        /\ users' = r.users
        /\ farmers' = r.farmers
        /\ buyers' = r.buyers
    /\ sess' = [sess EXCEPT ![w] = Idle]
    /\ UNCHANGED <<orders, wishlists, wishlist_seq, created_by>>

\* routes.py lines 48-66 of add_to_wishlist in a worker: identity and body validation
AddReceive(w) ==
    /\ sess[w].pc = "idle"
    /\ \E token \in Tokens, data \in WishlistBodies :
        sess' = [sess EXCEPT ![w] =
                    IF UUID(get_jwt_identity(token)) = 0
                       \/ DOMAIN data = {} \/ "animal_id" \notin DOMAIN data
                    THEN Idle
                    ELSE [pc |-> "check", current_user_id |-> UUID(get_jwt_identity(token)),
                          data |-> data]]
    /\ UNCHANGED <<users, farmers, buyers, orders, wishlists, wishlist_seq, created_by>>

\* lines 68-73: the duplicate query, which sees the committed rows
AddCheck(w) ==
    /\ sess[w].pc = "check"
    /\ sess' = [sess EXCEPT ![w] =
                   IF WishlistByUserAnimal(sess[w].current_user_id, sess[w].data.animal_id) # {}
                   THEN Idle
                   ELSE [sess[w] EXCEPT !.pc = "insert"]]
    /\ UNCHANGED <<users, farmers, buyers, orders, wishlists, wishlist_seq, created_by>>

\* lines 76-89: INSERT and commit, or rollback when a foreign key refuses the row
AddInsert(w) ==
    /\ sess[w].pc = "insert"
    /\ wishlist_seq < MaxWishlistRows
    /\ LET wishlist_item == NewWishlist(sess[w].current_user_id, sess[w].data) IN
        /\ wishlists' = IF WishlistForeignKeys(wishlist_item)
                        THEN wishlists \cup {wishlist_item} ELSE wishlists
        /\ created_by' = IF WishlistForeignKeys(wishlist_item)
                         THEN created_by \cup
                              {<<"wishlists", wishlist_item.id, sess[w].current_user_id>>}
                         ELSE created_by
    /\ wishlist_seq' = wishlist_seq + 1
    /\ sess' = [sess EXCEPT ![w] = Idle]
    /\ UNCHANGED <<users, farmers, buyers, orders>>

(***************************************************************************)
(* Specifications                                                          *)
(***************************************************************************)
Init ==
    /\ users = SeedUsers
    /\ farmers = SeedFarmers
    /\ buyers = SeedBuyers
    /\ orders = {}
    /\ wishlists = {}
    /\ wishlist_seq = 0
    /\ created_by = {}
    /\ sess = [w \in Workers |-> Idle]

\* every handler that writes, one request at a time
Next == Register \/ CreateOrder \/ AddToWishlist \/ RemoveFromWishlist

Spec == Init /\ [][Next]_vars

\* the auth and orders blueprints
NextOrders == Register \/ CreateOrder

SpecOrders == Init /\ [][NextOrders]_vars

\* the auth and wishlist blueprints
NextWishlist == Register \/ AddToWishlist \/ RemoveFromWishlist

SpecWishlist == Init /\ [][NextWishlist]_vars

\* registrations handled by concurrent workers
NextConcurrent ==
    \E w \in Workers :
        RegisterReceive(w) \/ RegisterFlush(w) \/ RegisterProfile(w) \/ RegisterCommit(w)

SpecConcurrent == Init /\ [][NextConcurrent]_vars

\* POST /wishlist handled by concurrent workers
NextWishlistConcurrent == \E w \in Workers : AddReceive(w) \/ AddCheck(w) \/ AddInsert(w)

SpecWishlistConcurrent == Init /\ [][NextWishlistConcurrent]_vars
(***************************************************************************)
(* Claims                                                                  *)
(***************************************************************************)
\* the tokens of users, each issued by login
UserTokens == Tokens \ {MalformedToken}

\* the Buyer profile ids of the user a token names
ProfileIds(token) == {b.id : b \in {x \in buyers : UuidStr[x.user_id] = token.sub}}

\* ids no row of the table has
NoOrder(order_id) == IntOf(order_id) \notin {o.id : o \in orders}
NoWishlist(item_id) == IntOf(item_id) \notin {x.id : x \in wishlists}

\* C1: for users A # B, GET /orders by A returns only stored orders whose buyer_id is
\* A's Buyer profile id, and GET /orders/{id} by A with the id of an order of B is the
\* same 404 response as with an id no order has.
C1_OrdersIsolated ==
    \A a \in UserTokens, b \in UserTokens :
        a.sub # b.sub =>
            /\ get_my_orders(a).status \in {200, 404}
            /\ get_my_orders(a).status = 200 =>
                   \A d \in get_my_orders(a).body :
                       \E o \in orders : d = OrderDict(o) /\ o.buyer_id \in ProfileIds(a)
            /\ \A o \in orders, missing \in OrderIdParams :
                   (o.buyer_id \in ProfileIds(b) /\ NoOrder(missing)) =>
                       /\ get_order(a, Str(o.id)).status = 404
                       /\ get_order(a, Str(o.id)) = get_order(a, missing)

\* A and B each own an order; A lists its own and is refused B's
C1_Witness ==
    \E a \in UserTokens, b \in UserTokens, oa \in orders, ob \in orders :
        /\ a.sub # b.sub
        /\ oa.buyer_id \in ProfileIds(a)
        /\ ob.buyer_id \in ProfileIds(b)
        /\ get_my_orders(a) = [status |-> 200, body |-> {OrderDict(oa)}]
        /\ get_order(a, Str(ob.id)).status = 404
        /\ get_order(b, Str(ob.id)).status = 200

\* C2: DELETE /wishlist/{id} deletes only entries whose user_id is the caller's
\* identity; with the id of an entry of another user B it answers the same 404 as for
\* an id no entry has, and deletes nothing.
C2_DeleteOwnOnly ==
    /\ \A a \in Tokens, item_id \in WishlistIdParams :
           \A x \in remove_from_wishlist(a, item_id).deleted :
               x \in wishlists /\ UuidStr[x.user_id] = a.sub
    /\ \A a \in UserTokens, b \in UserTokens :
           a.sub # b.sub =>
               \A x \in wishlists, missing \in WishlistIdParams :
                   (UuidStr[x.user_id] = b.sub /\ NoWishlist(missing)) =>
                       /\ remove_from_wishlist(a, Str(x.id)).response.status = 404
                       /\ remove_from_wishlist(a, Str(x.id)).response
                              = remove_from_wishlist(a, missing).response
                       /\ wishlists \ remove_from_wishlist(a, Str(x.id)).deleted = wishlists

\* B has an entry that A is refused and B can delete, next to an entry of A
C2_Witness ==
    \E a \in UserTokens, b \in UserTokens, xa \in wishlists, xb \in wishlists :
        /\ a.sub # b.sub
        /\ UuidStr[xa.user_id] = a.sub
        /\ UuidStr[xb.user_id] = b.sub
        /\ remove_from_wishlist(a, Str(xb.id)).response.status = 404
        /\ remove_from_wishlist(b, Str(xb.id)).deleted = {xb}
\* C3: a row created by POST /orders carries the Buyer profile id of the caller's
\* token identity and a row created by POST /wishlist carries the caller's identity,
\* whatever owner the body names; every stored order's buyer_id is the Buyer profile
\* of the user that created it, and every stored entry's user_id is its creator.
C3_OwnerFromToken ==
    /\ \A token \in Tokens, data \in OrderBodies :
           \A o \in create_order(token, data).added : o.buyer_id \in ProfileIds(token)
    /\ \A token \in Tokens, data \in WishlistBodies :
           \A x \in add_to_wishlist(token, data).added : UuidStr[x.user_id] = token.sub
    /\ \A o \in orders :
           \E c \in created_by, b \in buyers :
               c = <<"orders", o.id, b.user_id>> /\ b.id = o.buyer_id
    /\ \A x \in wishlists : <<"wishlists", x.id, x.user_id>> \in created_by

\* orders and entries are stored, and requests naming another owner would be accepted
C3_Witness ==
    /\ \E o1 \in orders, o2 \in orders : o1.buyer_id # o2.buyer_id
    /\ wishlists # {}
    /\ \E token \in UserTokens, data \in OrderBodies :
           /\ "buyer_id" \in DOMAIN data
           /\ data.buyer_id \notin ProfileIds(token)
           /\ create_order(token, data).response.status = 201
    /\ \E token \in UserTokens, data \in WishlistBodies :
           /\ "user_id" \in DOMAIN data
           /\ data.user_id # token.sub
           /\ add_to_wishlist(token, data).response.status = 201
\* C4: in every committed state of concurrent registrations every User has exactly
\* one profile, of its role (a Farmer for a farmer, a Buyer for a buyer), and every
\* Farmer and Buyer row references a stored User.
C4_UserWithProfile ==
    /\ \A u \in users :
           /\ u.role \in {"farmer", "buyer"}
           /\ Cardinality({f \in farmers : f.user_id = u.id})
                  = (IF u.role = "farmer" THEN 1 ELSE 0)
           /\ Cardinality({b \in buyers : b.user_id = u.id})
                  = (IF u.role = "buyer" THEN 1 ELSE 0)
    /\ \A f \in farmers : \E u \in users : u.id = f.user_id
    /\ \A b \in buyers : \E u \in users : u.id = b.user_id

\* a farmer committed by one worker while the other, past its own phone check with
\* the same number, is about to commit
C4_Witness ==
    \E w \in Workers, f \in farmers :
        /\ f \notin SeedFarmers
        /\ sess[w].pc = "commit"
        /\ sess[w].new_user.role = "farmer"
        /\ sess[w].data.phone_number = f.phone_number
        /\ sess[w].new_user.email \notin {u.email : u \in users}
\* the emails and farmer phone numbers of committed rows
RegisteredEmails == {u.email : u \in users}
RegisteredPhones == {f.phone_number : f \in farmers}

\* the request passes the validation of step 1
ValidBase(data) ==
    /\ {"email", "password", "role"} \subseteq DOMAIN data
    /\ Lower(data.role) \in {"farmer", "buyer"}

IsFarmer(data) == "role" \in DOMAIN data /\ Lower(data.role) = "farmer"

MissingFarmerField(data) ==
    \E k \in {"farm_name", "location", "phone_number"} : k \notin DOMAIN data \/ data[k] = ""

\* the response commits nothing
NothingCommitted(r) == r.users = users /\ r.farmers = farmers /\ r.buyers = buyers

\* a registration with nothing wrong but, possibly, its email
WellFormed(data) ==
    /\ ValidBase(data)
    /\ IsFarmer(data) =>
           ~ MissingFarmerField(data) /\ data.phone_number \notin RegisteredPhones

\* C5 as stated: a registration with an email of a committed User always gets 409 and
\* leaves the tables as they were.
C5_Original ==
    \A data \in RegisterBodies :
        ("email" \in DOMAIN data /\ data.email \in RegisteredEmails) =>
            register(data).response.status = 409 /\ NothingCommitted(register(data))

\* C5: a registration with an email of a committed User always fails and leaves the
\* tables as they were: with 409 when email, password and role are present and the
\* role is farmer or buyer, with 400 otherwise.
C5_EmailTaken ==
    \A data \in RegisterBodies :
        ("email" \in DOMAIN data /\ data.email \in RegisteredEmails) =>
            /\ NothingCommitted(register(data))
            /\ register(data).response.status = (IF ValidBase(data) THEN 409 ELSE 400)

\* an email registered through the handler is refused to a second, valid request
C5_Witness ==
    \E data \in RegisterBodies, u \in users \ SeedUsers :
        /\ ValidBase(data)
        /\ data.email = u.email
        /\ register(data).response = Error(409, "Email already registered")

\* C6 as stated: a farmer registration with farm_name, location or phone_number
\* missing gets 400, commits nothing, and a later registration with the same email
\* succeeds with 201.
C6_Original ==
    \A data \in RegisterBodies :
        (IsFarmer(data) /\ MissingFarmerField(data)) =>
            /\ register(data).response.status = 400
            /\ NothingCommitted(register(data))
            /\ "email" \in DOMAIN data =>
                   \A next \in RegisterBodies :
                       (WellFormed(next) /\ next.email = data.email) =>
                           register(next).response.status = 201

\* C6: a farmer registration with an email no committed User has and farm_name,
\* location or phone_number missing gets 400 and commits nothing, and a later
\* well-formed registration with the same email succeeds with 201.
C6_FarmerFieldsMissing ==
    \A data \in RegisterBodies :
        (/\ IsFarmer(data) /\ MissingFarmerField(data)
         /\ "email" \in DOMAIN data /\ data.email \notin RegisteredEmails) =>
            /\ register(data).response.status = 400
            /\ NothingCommitted(register(data))
            /\ \A next \in RegisterBodies :
                   (WellFormed(next) /\ next.email = data.email) =>
                       /\ register(next).response.status = 201
                       /\ \E u \in register(next).users \ users : u.email = data.email

\* a request that is flushed and then refused for its phone_number alone, after
\* other registrations were committed, and a registration that then takes its email
C6_Witness ==
    \E data \in RegisterBodies, next \in RegisterBodies :
        /\ users # SeedUsers
        /\ ValidBase(data) /\ IsFarmer(data)
        /\ data.email \notin RegisteredEmails
        /\ {"farm_name", "location"} \subseteq DOMAIN data
        /\ "phone_number" \notin DOMAIN data
        /\ register(data).response
               = Error(400, "Farmers require farm_name, location, and phone_number")
        /\ WellFormed(next) /\ IsFarmer(next) /\ next.email = data.email
        /\ register(next).response.status = 201

\* no two committed Farmer rows share a phone_number
FarmerPhonesUnique ==
    \A f \in farmers, g \in farmers : f.phone_number = g.phone_number => f = g

\* C7 as stated: a farmer registration with a phone_number of a committed Farmer gets
\* 409 and commits nothing; no two committed Farmer rows share a phone_number.
C7_Original ==
    /\ \A data \in RegisterBodies :
           (/\ IsFarmer(data) /\ "phone_number" \in DOMAIN data
            /\ data.phone_number \in RegisteredPhones) =>
               register(data).response.status = 409 /\ NothingCommitted(register(data))
    /\ FarmerPhonesUnique

\* C7: a farmer registration with a phone_number of a committed Farmer always fails
\* and commits nothing: with 409 when email, password, farm_name and location are
\* present (for the phone when the email is free), with 400 or 409 otherwise; no two
\* committed Farmer rows share a phone_number.
C7_PhoneTaken ==
    /\ \A data \in RegisterBodies :
           (/\ IsFarmer(data) /\ "phone_number" \in DOMAIN data
            /\ data.phone_number \in RegisteredPhones) =>
               /\ NothingCommitted(register(data))
               /\ register(data).response.status \in {400, 409}
               /\ (ValidBase(data) /\ ~ MissingFarmerField(data)) =>
                      register(data).response.status = 409
               /\ (/\ ValidBase(data) /\ ~ MissingFarmerField(data)
                   /\ data.email \notin RegisteredEmails) =>
                      register(data).response = Error(409, "Phone number already registered")
    /\ FarmerPhonesUnique

\* a second farmer, with a free email, asks for the number a farmer registered
\* through the handler holds
C7_Witness ==
    \E data \in RegisterBodies, f \in farmers \ SeedFarmers :
        /\ ValidBase(data) /\ IsFarmer(data) /\ ~ MissingFarmerField(data)
        /\ data.email \notin RegisteredEmails
        /\ data.phone_number = f.phone_number
        /\ register(data).response = Error(409, "Phone number already registered")

\* the stored rows of a user for one animal, and a body that names an animal
PairOf(token, data) ==
    {x \in wishlists : UuidStr[x.user_id] = token.sub /\ x.animal_id = data.animal_id}
AddsPair(data) == "animal_id" \in DOMAIN data /\ data.animal_id \in animals

\* C8: POST /wishlist twice with the same (user, animal) pair, the pair not stored
\* before: the first call answers 201 and stores exactly one entry, for that pair; the
\* same call made on the state the first one leaves answers 200 "Item already in
\* wishlist", stores nothing and leaves the sequence alone, so the user's count of
\* entries after both calls is the count before plus one.
C8_AddTwice ==
    [][\A token \in UserTokens, data \in WishlistBodies :
          (/\ AddsPair(data) /\ PairOf(token, data) = {}
           /\ wishlists' = wishlists \cup add_to_wishlist(token, data).added
           /\ wishlist_seq' = add_to_wishlist(token, data).seq
           /\ UNCHANGED <<users, farmers, buyers, orders, sess>>)
          => /\ add_to_wishlist(token, data).response.status = 201
             /\ Cardinality(add_to_wishlist(token, data).added) = 1
             /\ Cardinality(PairOf(token, data)') = 1
             /\ add_to_wishlist(token, data)' =
                    [response |-> Message(200, "Item already in wishlist"),
                     added |-> {}, seq |-> wishlist_seq']
             /\ get_wishlist_count(token)'.body.count =
                    get_wishlist_count(token).body.count + 1]_vars

\* a pair stored through POST /wishlist, for which the same call now answers 200
C8_Witness ==
    \E token \in UserTokens, data \in WishlistBodies :
        /\ AddsPair(data)
        /\ \E x \in PairOf(token, data) : <<"wishlists", x.id, x.user_id>> \in created_by
        /\ add_to_wishlist(token, data).response = Message(200, "Item already in wishlist")
        /\ add_to_wishlist(token, data).added = {}
        /\ get_wishlist_count(token).body.count = 1

\* the orders of the caller's Buyer profile, and their total summed in order of id
OwnOrders(token) == {o \in orders : o.buyer_id \in ProfileIds(token)}
RECURSIVE TotalUpTo(_, _)
TotalUpTo(n, token) ==
    IF n = 0 THEN 0
    ELSE LET at == {o \in OwnOrders(token) : o.id = n} IN
         TotalUpTo(n - 1, token) + (IF at = {} THEN 0 ELSE (CHOOSE o \in at : TRUE).total_amount)

\* C9: after any registrations and order creations, GET /orders/stats answers 200; for
\* a caller with a Buyer profile total_orders is the number of orders whose buyer_id
\* is that profile's id and total_spent the sum of their total_amount, and for a
\* caller without a Buyer profile the body is {total_orders: 0, total_spent: 0}.
C9_StatsOwnOrders ==
    \A token \in UserTokens :
        get_order_stats(token) =
            IF ProfileIds(token) = {}
            THEN [status |-> 200, body |-> [total_orders |-> 0, total_spent |-> 0]]
            ELSE [status |-> 200,
                  body |-> [total_orders |-> Cardinality(OwnOrders(token)),
                            total_spent |-> TotalUpTo(Cardinality(orders), token)]]

\* two buyers each hold an order of a different amount, one of them registered as
\* b@x.com with the order of 185000.00; each is told its own, a farmer is told zeros
C9_Witness ==
    \E a \in UserTokens, b \in UserTokens, n \in UserTokens, oa \in orders, ob \in orders :
        /\ a.sub # b.sub /\ oa.total_amount # ob.total_amount
        /\ \E u \in users : u.email = "b@x.com" /\ UuidStr[u.id] = a.sub
        /\ oa.buyer_id \in ProfileIds(a) /\ oa.total_amount = 18500000
        /\ ob.buyer_id \in ProfileIds(b)
        /\ get_order_stats(a).body = [total_orders |-> 1, total_spent |-> 18500000]
        /\ get_order_stats(b).body = [total_orders |-> 1, total_spent |-> ob.total_amount]
        /\ ProfileIds(n) = {}
        /\ get_order_stats(n) = [status |-> 200, body |-> [total_orders |-> 0, total_spent |-> 0]]

\* the users whose email and stored credential a login body matches
Matches(data) ==
    {u \in users : u.email = data.email
                   /\ check_password_hash(u.password_hash, data.password)}

\* C10: POST /login with a registered email and a wrong password and POST /login with
\* an email of no user get the identical response, status 401 and the same body; a
\* response carries a token only when a user has the email and the password matches
\* that user's stored credential, and the token then names that user.
C10_LoginUniform ==
    /\ \A d1 \in LoginBodies, d2 \in LoginBodies :
           (d1.email \in RegisteredEmails /\ Matches(d1) = {}
            /\ d2.email \notin RegisteredEmails)
           => login(d1) = login(d2) /\ login(d1).status = 401
    /\ \A d \in LoginBodies :
           (login(d).status = 200 \/ "access_token" \in DOMAIN login(d).body)
           => \E u \in Matches(d) : login(d).body.access_token.sub = UuidStr[u.id]

\* a user registered through POST /register: its password logs in, another password
\* is answered as an unknown email is
C10_Witness ==
    \E u \in users \ SeedUsers, d1 \in LoginBodies, d2 \in LoginBodies, d3 \in LoginBodies :
        /\ d1.email = u.email /\ Matches(d1) = {}
        /\ d2.email \notin RegisteredEmails
        /\ login(d1) = Error(401, "Invalid credentials") /\ login(d2) = login(d1)
        /\ d3.email = u.email /\ login(d3).status = 200
        /\ login(d3).body.access_token.sub = UuidStr[u.id]

\* C11: for a caller with no Buyer profile, GET /orders answers 200 with no orders and
\* GET /orders/stats answers 200 with zero totals, and POST /orders answers 404 and
\* creates no Order row.
C11_NoProfile ==
    \A token \in UserTokens :
        ProfileIds(token) = {} =>
            /\ get_my_orders(token) = [status |-> 200, body |-> {}]
            /\ get_order_stats(token) =
                   [status |-> 200, body |-> [total_orders |-> 0, total_spent |-> 0]]
            /\ \A data \in OrderBodies :
                   /\ create_order(token, data).response.status = 404
                   /\ create_order(token, data).added = {}

\* the MalformedIdentity response
InvalidUserId == Error(400, "Invalid user ID format")

\* C12: on every protected endpoint (GET /me, GET and POST /orders, GET /orders/{id},
\* GET /orders/stats, GET and POST /wishlist, DELETE /wishlist/{id},
\* GET /wishlist/check/{animal_id}, GET /wishlist/count) a token whose subject is no
\* well-formed identifier gets the 400 response, the same whatever the tables hold,
\* and the request adds no row, deletes no row and draws no sequence value.
C12_MalformedIdentity ==
    /\ get_current_user(MalformedToken) = InvalidUserId
    /\ get_my_orders(MalformedToken) = InvalidUserId
    /\ \A data \in OrderBodies :
           create_order(MalformedToken, data) = [response |-> InvalidUserId, added |-> {}]
    /\ \A order_id \in OrderIdParams : get_order(MalformedToken, order_id) = InvalidUserId
    /\ get_order_stats(MalformedToken) = InvalidUserId
    /\ get_my_wishlist(MalformedToken) = InvalidUserId
    /\ \A data \in WishlistBodies :
           add_to_wishlist(MalformedToken, data) =
               [response |-> InvalidUserId, added |-> {}, seq |-> wishlist_seq]
    /\ \A item_id \in WishlistIdParams :
           remove_from_wishlist(MalformedToken, item_id) =
               [response |-> InvalidUserId, deleted |-> {}]
    /\ \A animal_id \in {1, 2, 99} :
           check_in_wishlist(MalformedToken, Str(animal_id)) = InvalidUserId
    /\ get_wishlist_count(MalformedToken) = InvalidUserId

\* an order and a wishlist entry are stored, and the malformed token asking for them
\* by id is answered 400 and deletes nothing
C12_Witness ==
    \E o \in orders, x \in wishlists :
        /\ get_order(MalformedToken, Str(o.id)) = InvalidUserId
        /\ remove_from_wishlist(MalformedToken, Str(x.id)) =
               [response |-> InvalidUserId, deleted |-> {}]
        /\ check_in_wishlist(MalformedToken, Str(x.animal_id)) = InvalidUserId
        /\ \E data \in OrderBodies :
               /\ {"items", "total_amount"} \subseteq DOMAIN data
               /\ create_order(MalformedToken, data).response.status = 400

\* C13: in every reachable state, under any interleaving of concurrent POST /wishlist
\* requests, no two stored wishlist entries have the same (user_id, animal_id) pair.
C13_PairUnique ==
    \A x \in wishlists, y \in wishlists :
        (x.user_id = y.user_id /\ x.animal_id = y.animal_id) => x = y
====
